---- MODULE Spec2Model ----
(***************************************************************************)
(* Model of nfl_betting_full_auto.py: main(season) runs                    *)
(*   fetch_pbp_data -> calculate_epa -> aggregate_net_epa                  *)
(*   -> generate_betting_recommendations.                                 *)
(*                                                                         *)
(* A DataFrame is a record [cols, rows]: the set of column names and the   *)
(* sequence of rows, each row a function from cols to cell values.  A      *)
(* frame may have rows and no columns (an index only).                     *)
(*                                                                         *)
(* Numbers.  Expected-points cells are integers counting hundredths of a   *)
(* point (10 is 0.1).  Derived per-play values are exact rationals         *)
(* [nan, num, den] in the same unit, den > 0, in lowest terms; NaN is the  *)
(* value pandas puts in the cells a left merge cannot fill.  Float         *)
(* rounding is not modelled.                                               *)
(*                                                                         *)
(* Upstream frames have a value in every cell of every column they have    *)
(* (the data model's play record); null cells in upstream data are outside *)
(* the modelled inputs.                                                    *)
(***************************************************************************)
EXTENDS Integers, Sequences, FiniteSets, TLC

VARIABLES pc, season, requests, outcomes, response, pbp_data, pbp_epa,
          off_epa, def_epa, net_epa, recs, err

vars == <<pc, season, requests, outcomes, response, pbp_data, pbp_epa,
          off_epa, def_epa, net_epa, recs, err>>

(* ---------- Config ---------- *)
LATEST_AVAILABLE_SEASON == 2024
INITIAL_EPA == 0

(* Largest number of rows of an upstream frame. *)
MaxRows == 2

(* ---------- Inputs ---------- *)
Seasons == {2024, 2025}
Columns == {"game_id", "posteam", "defteam", "ep", "ep_before"}
Games == {"G1", "G2"}
Teams == {"A", "B"}
EpValues == {10, 30}
EpBeforeValues == {0, 5}

(* A play has one game, one offensive and one defensive team. *)
Plays == {p \in [game_id : Games, posteam : Teams, defteam : Teams,
                 ep : EpValues, ep_before : EpBeforeValues] :
            p.posteam # p.defteam}

RowsOf(S) == {[c \in S |-> p[c]] : p \in Plays}

NoFrame == [cols |-> {}, rows |-> <<>>]

(* DataFrame.empty: any axis of length 0. *)
Empty(df) == Len(df.rows) = 0 \/ df.cols = {}

(* ---------- Fetch Play-by-Play Data ---------- *)
(* requests: the seasons asked of nfl.import_pbp_data, in order.
   outcomes: what each request did: "raised", "empty" or "data".
   response: the frame the latest request returned (NoFrame if it raised). *)
Outcome(frame) == IF Empty(frame) THEN "empty" ELSE "data"

Returned(frame, latest, reqs, outs) ==
    /\ pbp_data' = frame
    /\ response' = latest
    /\ requests' = reqs
    /\ outcomes' = outs
    /\ pc' = "calculate"
    /\ err' = "none"

(* An exception leaves fetch_pbp_data: main has no handler, the run ends. *)
Propagated(reqs, outs) ==
    /\ pbp_data' = NoFrame
    /\ response' = NoFrame
    /\ requests' = reqs
    /\ outcomes' = outs
    /\ pc' = "failed"
    /\ err' = "fetch"

(* Mutant: the fallback asks again for the season that just failed. *)
FallbackSeasonRequested(s) == s

FallbackSeason(s) == LATEST_AVAILABLE_SEASON

(* The except branch: one request for the fallback season, outside any try;
   what it returns is returned, what it raises propagates. *)
Fallback(first) ==
    LET reqs == <<season, FallbackSeason(season)>> IN
    \/ Propagated(reqs, <<first, "raised">>)
    \/ \E S \in SUBSET Columns : \E k \in 0..MaxRows : \E rs \in [1..k -> RowsOf(S)] :
         LET frame == [cols |-> S, rows |-> rs] IN
         Returned(frame, frame, reqs, <<first, Outcome(frame)>>)

(* Mutant: only a frame with no rows counts as empty (len(df) == 0). *)
FirstFailsNoRows(frame) == Len(frame.rows) = 0

(* if pbp_data.empty: raise ValueError, caught by the except below it. *)
FirstFails(frame) == Empty(frame)

FetchPbpData ==
    /\ pc = "fetch"
    /\ \/ Fallback("raised")
       \/ \E S \in SUBSET Columns : \E k \in 0..MaxRows : \E rs \in [1..k -> RowsOf(S)] :
            LET frame == [cols |-> S, rows |-> rs] IN
            IF FirstFails(frame)
            THEN Fallback(Outcome(frame))
            ELSE Returned(frame, frame, <<season>>, <<Outcome(frame)>>)
    /\ UNCHANGED <<season, pbp_epa, off_epa, def_epa, net_epa, recs>>

(* ---------- Numbers ---------- *)
RECURSIVE GCD(_, _)
GCD(a, b) == IF b = 0 THEN a ELSE GCD(b, a % b)

AbsInt(n) == IF n < 0 THEN -n ELSE n

NaN == [nan |-> TRUE, num |-> 0, den |-> 1]

(* n/d in lowest terms, d > 0. *)
Rat(n, d) ==
    LET g == GCD(AbsInt(n), d) IN
    [nan |-> FALSE, num |-> n \div g, den |-> d \div g]

(* Float division of a sum by a count: 0.0/0 is NaN. *)
Div(n, d) == IF d = 0 THEN NaN ELSE Rat(n, d)

Add(a, b) ==
    IF a.nan \/ b.nan THEN NaN
    ELSE Rat(a.num * b.den + b.num * a.den, a.den * b.den)

Abs(a) == IF a.nan THEN NaN ELSE Rat(AbsInt(a.num), a.den)

(* Every comparison with NaN is False. *)
Gt(a, b) == ~a.nan /\ ~b.nan /\ a.num * b.den > b.num * a.den

(* ---------- Calculate EPA ---------- *)
(* pbp_data[c] = v: the column is added, or overwritten, on every row. *)
SetCol(df, c, v) ==
    [cols |-> df.cols \cup {c},
     rows |-> [i \in 1..Len(df.rows) |->
                 [x \in df.cols \cup {c} |-> IF x = c THEN v ELSE df.rows[i][x]]]]

(* Mutant: the sentinel overwrites a key column that is present. *)
BackfillAlways(df, c, v) == SetCol(df, c, v)

Backfill(df, c, v) == IF c \notin df.cols THEN SetCol(df, c, v) ELSE df

(* Mutant: the operands of the subtraction swapped. *)
EfficiencyReversed(row) == row["ep_before"] - row["ep"]

Efficiency(row) == row["ep"] - row["ep_before"]

SchemaMissing(df) == "ep" \notin df.cols \/ "ep_before" \notin df.cols

calculate_epa(df) ==
    IF Empty(df) THEN
        SetCol(SetCol(SetCol(SetCol(df, "epa", INITIAL_EPA),
                             "defteam", "DEF"), "posteam", "OFF"), "game_id", "MOCK")
    ELSE IF SchemaMissing(df) THEN
        Backfill(Backfill(Backfill(SetCol(df, "epa", INITIAL_EPA),
                                   "defteam", "DEF"), "posteam", "OFF"), "game_id", "MOCK")
    ELSE
        [cols |-> df.cols \cup {"epa"},
         rows |-> [i \in 1..Len(df.rows) |->
                     [x \in df.cols \cup {"epa"} |->
                        IF x = "epa" THEN Efficiency(df.rows[i]) ELSE df.rows[i][x]]]]

CalculateEpa ==
    /\ pc = "calculate"
    /\ pbp_epa' = calculate_epa(pbp_data)
    /\ pc' = "aggregate"
    /\ UNCHANGED <<season, requests, outcomes, response, pbp_data, off_epa, def_epa,
                   net_epa, recs, err>>

(* ---------- Aggregate Net EPA by Team ---------- *)
(* groupby sorts its groups by key: the key values in ascending order. *)
GameOrder == <<"G1", "G2", "MOCK">>
TeamOrder == <<"A", "B", "DEF", "OFF">>

KeyOrder ==
    [i \in 1..(Len(GameOrder) * Len(TeamOrder)) |->
       <<GameOrder[((i - 1) \div Len(TeamOrder)) + 1],
         TeamOrder[((i - 1) % Len(TeamOrder)) + 1]>>]

(* The indices of the rows of the group (game, team), team read from column by. *)
Group(rows, by, k) ==
    {i \in 1..Len(rows) : rows[i]["game_id"] = k[1] /\ rows[i][by] = k[2]}

GroupKeys(rows, by) ==
    SelectSeq(KeyOrder, LAMBDA k : Group(rows, by, k) # {})

RECURSIVE SumEpa(_, _)
SumEpa(rows, idx) ==
    IF idx = {} THEN 0
    ELSE LET i == CHOOSE j \in idx : TRUE IN
         rows[i]["epa"] + SumEpa(rows, idx \ {i})

OffPerPlay(total, plays) == Div(total, plays)

(* Mutant: the sign inversion of the defensive value dropped. *)
DefPerPlayUnsigned(total, plays) == Div(total, plays)

DefPerPlay(total, plays) == Div(-total, plays)

OffEpa(rows) ==
    LET keys == GroupKeys(rows, "posteam") IN
    [n \in 1..Len(keys) |->
       LET g == Group(rows, "posteam", keys[n])
           total == SumEpa(rows, g)
           plays == Cardinality(g) IN
       [game_id |-> keys[n][1], posteam |-> keys[n][2],
        off_total_epa |-> total, off_plays |-> plays,
        off_epa_per_play |-> OffPerPlay(total, plays)]]

DefEpa(rows) ==
    LET keys == GroupKeys(rows, "defteam") IN
    [n \in 1..Len(keys) |->
       LET g == Group(rows, "defteam", keys[n])
           total == SumEpa(rows, g)
           plays == Cardinality(g) IN
       [game_id |-> keys[n][1], defteam |-> keys[n][2],
        def_total_epa |-> total, def_plays |-> plays,
        def_epa_per_play |-> DefPerPlay(total, plays)]]

(* Mutant: a team's offense joined to its opponent's defense. *)
JoinOpponent(o, d) == d.game_id = o.game_id /\ d.defteam # o.posteam

(* left_on=['game_id', 'posteam'], right_on=['game_id', 'defteam'] *)
JoinMatch(o, d) == d.game_id = o.game_id /\ d.defteam = o.posteam

Joined(o, defval) ==
    [game_id |-> o.game_id, posteam |-> o.posteam,
     off_epa_per_play |-> o.off_epa_per_play,
     def_epa_per_play |-> defval]

(* how='left': a left row with no match is kept once, its right cells NaN;
   a left row with matches appears once per match. *)
RECURSIVE Merge(_, _)
Merge(left, right) ==
    IF left = <<>> THEN <<>>
    ELSE LET o == Head(left)
             m == SelectSeq(right, LAMBDA d : JoinMatch(o, d))
             these == IF m = <<>> THEN <<Joined(o, NaN)>>
                      ELSE [j \in 1..Len(m) |-> Joined(o, m[j].def_epa_per_play)]
         IN these \o Merge(Tail(left), right)

NetValue(off, def) == Add(off, def)

WithNet(rows) ==
    [n \in 1..Len(rows) |->
       [game_id |-> rows[n].game_id, posteam |-> rows[n].posteam,
        off_epa_per_play |-> rows[n].off_epa_per_play,
        def_epa_per_play |-> rows[n].def_epa_per_play,
        net_epa_per_play |-> NetValue(rows[n].off_epa_per_play,
                                      rows[n].def_epa_per_play)]]

aggregate_net_epa(off, def) == WithNet(Merge(off, def))

(* groupby raises KeyError on a column the frame does not have. *)
HasKeys(df) == {"game_id", "posteam", "defteam", "epa"} \subseteq df.cols

AggregateNetEpa ==
    /\ pc = "aggregate"
    /\ IF HasKeys(pbp_epa)
       THEN /\ off_epa' = OffEpa(pbp_epa.rows)
            /\ def_epa' = DefEpa(pbp_epa.rows)
            /\ net_epa' = aggregate_net_epa(OffEpa(pbp_epa.rows), DefEpa(pbp_epa.rows))
            /\ pc' = "recommend"
            /\ err' = err
       ELSE /\ pc' = "failed"
            /\ err' = "KeyError"
            /\ UNCHANGED <<off_epa, def_epa, net_epa>>
    /\ UNCHANGED <<season, requests, outcomes, response, pbp_data, pbp_epa, recs>>

(* ---------- Generate Betting Recommendations ---------- *)
SPREAD_THRESHOLD == 5

(* Mutant: the two mock rows with their net values exchanged. *)
MockNetEpaSwapped ==
    <<[game_id |-> "MOCK_1", posteam |-> "TeamA",
       off_epa_per_play |-> Rat(5, 1), def_epa_per_play |-> Rat(3, 1),
       net_epa_per_play |-> Rat(-3, 1)],
      [game_id |-> "MOCK_1", posteam |-> "TeamB",
       off_epa_per_play |-> Rat(-2, 1), def_epa_per_play |-> Rat(-1, 1),
       net_epa_per_play |-> Rat(8, 1)]>>

MockNetEpa ==
    <<[game_id |-> "MOCK_1", posteam |-> "TeamA",
       off_epa_per_play |-> Rat(5, 1), def_epa_per_play |-> Rat(3, 1),
       net_epa_per_play |-> Rat(8, 1)],
      [game_id |-> "MOCK_1", posteam |-> "TeamB",
       off_epa_per_play |-> Rat(-2, 1), def_epa_per_play |-> Rat(-1, 1),
       net_epa_per_play |-> Rat(-3, 1)]>>

BetFavorite(x) == IF Gt(x, Rat(0, 1)) THEN "Bet" ELSE "Avoid"

Confidence(x) == Abs(x)

BetType(x) == IF Gt(x, Rat(SPREAD_THRESHOLD, 1)) THEN "Spread" ELSE "No Bet"

(* The net frame always has its five columns: it is empty when it has no row. *)
NetEmpty(net) == Len(net) = 0

generate_betting_recommendations(net) ==
    LET df == IF NetEmpty(net) THEN MockNetEpa ELSE net IN
    [n \in 1..Len(df) |->
       [game_id |-> df[n].game_id, posteam |-> df[n].posteam,
        off_epa_per_play |-> df[n].off_epa_per_play,
        def_epa_per_play |-> df[n].def_epa_per_play,
        net_epa_per_play |-> df[n].net_epa_per_play,
        bet_favorite |-> BetFavorite(df[n].net_epa_per_play),
        confidence |-> Confidence(df[n].net_epa_per_play),
        bet_type |-> BetType(Confidence(df[n].net_epa_per_play))]]

GenerateBettingRecommendations ==
    /\ pc = "recommend"
    /\ recs' = generate_betting_recommendations(net_epa)
    /\ pc' = "done"
    /\ UNCHANGED <<season, requests, outcomes, response, pbp_data, pbp_epa, off_epa,
                   def_epa, net_epa, err>>

(* ---------- Main ---------- *)
Init ==
    /\ pc = "fetch"
    /\ season \in Seasons
    /\ requests = <<>>
    /\ outcomes = <<>>
    /\ response = NoFrame
    /\ pbp_data = NoFrame
    /\ pbp_epa = NoFrame
    /\ off_epa = <<>>
    /\ def_epa = <<>>
    /\ net_epa = <<>>
    /\ recs = <<>>
    /\ err = "none"

Next ==
    \/ FetchPbpData
    \/ CalculateEpa
    \/ AggregateNetEpa
    \/ GenerateBettingRecommendations

Spec == Init /\ [][Next]_vars
(* ---------- Properties ---------- *)
FetchReturned == pc # "fetch" /\ err # "fetch"
CalcDone == pc \in {"aggregate", "recommend", "done"} \/ (pc = "failed" /\ err = "KeyError")
AggDone == pc \in {"recommend", "done"}

FirstFailed == outcomes # <<>> /\ outcomes[1] \in {"raised", "empty"}

(* What both readings of C1 share: the requests made, and the first-request
   success path. *)
FetchRequests ==
    /\ Len(requests) \in {1, 2}
    /\ Len(outcomes) = Len(requests)
    /\ requests[1] = season
    /\ outcomes[1] = "data" =>
         /\ Len(requests) = 1
         /\ err # "fetch"
         /\ pbp_data = response
         /\ ~Empty(pbp_data)
    /\ FirstFailed =>
         /\ Len(requests) = 2
         /\ requests[2] = 2024

(* C1, as stated: after a first request that raised or came back empty, one
   more request is made, for season 2024, and its result is returned with no
   error propagated; a non-empty first result is returned with no second
   request; never more than two requests. *)
C1_AsStated ==
    pc # "fetch" =>
      /\ FetchRequests
      /\ FirstFailed => (err # "fetch" /\ pbp_data = response)

(* C1, amended: the same, except that the fallback request's result is
   returned only if that request returns; if the fallback request itself
   raises, its error propagates to the caller. *)
C1_SingleFallback ==
    pc # "fetch" =>
      /\ FetchRequests
      /\ FirstFailed =>
           IF outcomes[2] = "raised"
           THEN err = "fetch" /\ pc = "failed"
           ELSE err # "fetch" /\ pbp_data = response
                /\ outcomes[2] = Outcome(pbp_data)

C1_Witness == pc = "calculate" /\ season = 2025 /\ outcomes = <<"raised", "data">>

(* C2, as stated: whatever the upstream source does, the collection
   fetch_pbp_data returns is non-empty. *)
C2_AsStated == FetchReturned => ~Empty(pbp_data)

(* C2, amended: fetch_pbp_data returns an empty collection exactly when the
   first request raised or came back empty and the fallback request came
   back empty; a non-empty first result is returned as it is. *)
C2_EmptyOnlyFromFallback ==
    FetchReturned =>
      (Empty(pbp_data) <=> (Len(outcomes) = 2 /\ outcomes[2] = "empty"))

C2_Witness == pc = "calculate" /\ Empty(pbp_data) /\ outcomes = <<"empty", "empty">>

Sentinel(c) == IF c = "game_id" THEN "MOCK" ELSE IF c = "posteam" THEN "OFF" ELSE "DEF"
KeyFields == {"game_id", "posteam", "defteam"}

(* C3, as stated: calculate_epa on an empty collection returns exactly one
   row, with efficiency 0.0, teams "OFF"/"DEF" and game id "MOCK". *)
C3_AsStated ==
    (CalcDone /\ Empty(pbp_data)) =>
      /\ Len(pbp_epa.rows) = 1
      /\ pbp_epa.rows[1]["epa"] = 0
      /\ \A c \in KeyFields : pbp_epa.rows[1][c] = Sentinel(c)

(* C6: on a non-empty collection without ep or without ep_before, every row
   gets efficiency 0.0; each key field that is missing is filled with its
   sentinel on every row, each one present is left as it was; the row count
   and the other columns are kept.  On an empty collection the first branch
   decides: all four columns are set, whatever the schema. *)
C6_DegradedMode ==
    CalcDone =>
      /\ (~Empty(pbp_data) /\ ~({"ep", "ep_before"} \subseteq pbp_data.cols)) =>
           /\ pbp_epa.cols = pbp_data.cols \cup KeyFields \cup {"epa"}
           /\ Len(pbp_epa.rows) = Len(pbp_data.rows)
           /\ \A i \in 1..Len(pbp_epa.rows) :
                /\ pbp_epa.rows[i]["epa"] = 0
                /\ \A c \in KeyFields \ pbp_data.cols :
                     pbp_epa.rows[i][c] = Sentinel(c)
                /\ \A c \in pbp_data.cols :
                     pbp_epa.rows[i][c] = pbp_data.rows[i][c]
      /\ Empty(pbp_data) =>
           /\ pbp_epa.cols = pbp_data.cols \cup KeyFields \cup {"epa"}
           /\ Len(pbp_epa.rows) = Len(pbp_data.rows)
           /\ \A i \in 1..Len(pbp_epa.rows) :
                /\ pbp_epa.rows[i]["epa"] = 0
                /\ \A c \in KeyFields : pbp_epa.rows[i][c] = Sentinel(c)

C6_Witness ==
    /\ pc = "aggregate"
    /\ pbp_data.cols = {"ep", "posteam", "game_id"}
    /\ Len(pbp_data.rows) = 2
    /\ pbp_data.rows[1]["posteam"] = "A" /\ pbp_data.rows[2]["posteam"] = "B"
    /\ pbp_epa.rows[1]["defteam"] = "DEF"

(* C10: on a non-empty collection with both ep and ep_before, the efficiency
   of every row is its ep minus its ep_before, the row count is kept, and
   every input column, the three key fields among them, is unchanged; no key
   field is backfilled. *)
C10_Efficiency ==
    (CalcDone /\ ~Empty(pbp_data) /\ {"ep", "ep_before"} \subseteq pbp_data.cols) =>
      /\ pbp_epa.cols = pbp_data.cols \cup {"epa"}
      /\ Len(pbp_epa.rows) = Len(pbp_data.rows)
      /\ \A i \in 1..Len(pbp_epa.rows) :
           /\ pbp_epa.rows[i]["epa"] = pbp_data.rows[i]["ep"] - pbp_data.rows[i]["ep_before"]
           /\ \A c \in pbp_data.cols : pbp_epa.rows[i][c] = pbp_data.rows[i][c]

C10_Witness ==
    /\ pc = "aggregate"
    /\ pbp_data.cols = Columns
    /\ Len(pbp_data.rows) = 2
    /\ pbp_data.rows[1]["ep"] = 10 /\ pbp_data.rows[1]["ep_before"] = 5
    /\ pbp_epa.rows[1]["epa"] = 5
    /\ pbp_epa.rows[2]["epa"] = 30
(* The plays of game g in which team t is the team of column by. *)
PlaysOf(g, t, by) ==
    {i \in 1..Len(pbp_epa.rows) :
       pbp_epa.rows[i]["game_id"] = g /\ pbp_epa.rows[i][by] = t}

(* a >= b on floats: False when either is NaN. *)
Ge(a, b) == ~a.nan /\ ~b.nan /\ a.num * b.den >= b.num * a.den

(* v is the exact quotient n / d. *)
IsQuotient(v, n, d) == ~v.nan /\ d > 0 /\ v.num * d = n * v.den

(* The end-to-end scenario: two plays of game G1, A on offense against B,
   with efficiency 0.1 and 0.3. *)
Scenario ==
    /\ Len(pbp_epa.rows) = 2
    /\ \A i \in 1..2 :
         /\ pbp_epa.rows[i]["game_id"] = "G1"
         /\ pbp_epa.rows[i]["posteam"] = "A"
         /\ pbp_epa.rows[i]["defteam"] = "B"
    /\ {pbp_epa.rows[i]["epa"] : i \in 1..2} = {10, 30}

(* C4, as stated: in the scenario team A's output row has offensive 0.2,
   defensive 0.0, net 0.2, decision "Bet" and bet-type "Spread". *)
C4_AsStated ==
    (pc = "done" /\ Scenario) =>
      \E n \in 1..Len(recs) :
        /\ recs[n].game_id = "G1" /\ recs[n].posteam = "A"
        /\ recs[n].off_epa_per_play = Rat(20, 1)
        /\ recs[n].def_epa_per_play = Rat(0, 1)
        /\ recs[n].net_epa_per_play = Rat(20, 1)
        /\ recs[n].bet_favorite = "Bet"
        /\ recs[n].bet_type = "Spread"

(* C5: aggregate_net_epa returns one row for each (game, offensive team)
   pair of the plays and no other row; the defensive value of the row of
   (g, t) is the negated mean over the plays of g in which t itself defends,
   and is null when there is no such play. *)
C5_LeftSelfJoin ==
    AggDone =>
      /\ \A i \in 1..Len(pbp_epa.rows) :
           Cardinality({n \in 1..Len(net_epa) :
                          /\ net_epa[n].game_id = pbp_epa.rows[i]["game_id"]
                          /\ net_epa[n].posteam = pbp_epa.rows[i]["posteam"]}) = 1
      /\ \A n \in 1..Len(net_epa) :
           LET g == net_epa[n].game_id
               t == net_epa[n].posteam
               own == PlaysOf(g, t, "defteam")
               d == net_epa[n].def_epa_per_play IN
           /\ PlaysOf(g, t, "posteam") # {}
           /\ IF own = {} THEN d.nan
              ELSE IsQuotient(d, -SumEpa(pbp_epa.rows, own), Cardinality(own))

C5_Witness ==
    /\ pc = "recommend"
    /\ Len(net_epa) = 2
    /\ net_epa[1].posteam = "A" /\ net_epa[1].def_epa_per_play = Rat(-5, 1)
    /\ net_epa[2].posteam = "B" /\ net_epa[2].def_epa_per_play = Rat(-10, 1)

(* C7, as stated: on every output row the decision is "Bet" exactly when
   net > 0, confidence is |net| and is >= 0, and the bet-type is "Spread"
   exactly when confidence > 0.05. *)
C7_AsStated ==
    pc = "done" =>
      \A n \in 1..Len(recs) :
        /\ recs[n].bet_favorite = "Bet" <=> Gt(recs[n].net_epa_per_play, Rat(0, 1))
        /\ recs[n].bet_favorite \in {"Bet", "Avoid"}
        /\ recs[n].confidence = Abs(recs[n].net_epa_per_play)
        /\ Ge(recs[n].confidence, Rat(0, 1))
        /\ recs[n].bet_type = "Spread" <=> Gt(recs[n].confidence, Rat(5, 1))
        /\ recs[n].bet_type \in {"Spread", "No Bet"}

Mock(team, off, def, net, decision, conf, type) ==
    [game_id |-> "MOCK_1", posteam |-> team,
     off_epa_per_play |-> [nan |-> FALSE, num |-> off, den |-> 1],
     def_epa_per_play |-> [nan |-> FALSE, num |-> def, den |-> 1],
     net_epa_per_play |-> [nan |-> FALSE, num |-> net, den |-> 1],
     bet_favorite |-> decision,
     confidence |-> [nan |-> FALSE, num |-> conf, den |-> 1],
     bet_type |-> type]

(* C8: on an empty net input the output is the two mock rows, TeamA then
   TeamB, with their fixed values; on a non-empty input the output has one
   row per input row, in order, and no mock row. *)
C8_MockRows ==
    pc = "done" =>
      IF Len(net_epa) = 0
      THEN recs = <<Mock("TeamA", 5, 3, 8, "Bet", 8, "Spread"),
                    Mock("TeamB", -2, -1, -3, "Avoid", 3, "No Bet")>>
      ELSE /\ Len(recs) = Len(net_epa)
           /\ \A n \in 1..Len(recs) :
                /\ recs[n].game_id = net_epa[n].game_id
                /\ recs[n].posteam = net_epa[n].posteam
                /\ recs[n].net_epa_per_play = net_epa[n].net_epa_per_play
                /\ recs[n].game_id # "MOCK_1"

C8_Witness == pc = "done" /\ Len(net_epa) = 0 /\ Len(recs) = 2

(* C9: every offensive and every defensive group has a play count > 0, equal
   to the number of its plays; its per-play value is the sum of its plays'
   efficiency over that count, negated for the defensive one; a pair with no
   play has no group. *)
C9_GroupMeans ==
    AggDone =>
      /\ \A n \in 1..Len(off_epa) :
           LET g == PlaysOf(off_epa[n].game_id, off_epa[n].posteam, "posteam") IN
           /\ off_epa[n].off_plays > 0
           /\ off_epa[n].off_plays = Cardinality(g)
           /\ IsQuotient(off_epa[n].off_epa_per_play,
                         SumEpa(pbp_epa.rows, g), Cardinality(g))
      /\ \A n \in 1..Len(def_epa) :
           LET g == PlaysOf(def_epa[n].game_id, def_epa[n].defteam, "defteam") IN
           /\ def_epa[n].def_plays > 0
           /\ def_epa[n].def_plays = Cardinality(g)
           /\ IsQuotient(def_epa[n].def_epa_per_play,
                         -SumEpa(pbp_epa.rows, g), Cardinality(g))
      /\ \A i \in 1..Len(pbp_epa.rows) :
           /\ \E n \in 1..Len(off_epa) :
                /\ off_epa[n].game_id = pbp_epa.rows[i]["game_id"]
                /\ off_epa[n].posteam = pbp_epa.rows[i]["posteam"]
           /\ \E n \in 1..Len(def_epa) :
                /\ def_epa[n].game_id = pbp_epa.rows[i]["game_id"]
                /\ def_epa[n].defteam = pbp_epa.rows[i]["defteam"]

C9_Witness ==
    /\ pc = "recommend"
    /\ Len(off_epa) = 1
    /\ off_epa[1].off_plays = 2
    /\ off_epa[1].off_epa_per_play = [nan |-> FALSE, num |-> 35, den |-> 2]
    /\ def_epa[1].def_epa_per_play = [nan |-> FALSE, num |-> -35, den |-> 2]
====
